---- MODULE Spec2Model ----
(***************************************************************************)
(* A model of the loop-safe orchestrator                                   *)
(* (modules/orchestrator-loop-safe/amplifier_module_orchestrator_loop_safe)*)
(* LoopSafeOrchestrator.execute is a coroutine; it is cut at the points    *)
(* where it waits for the provider, for the tool:pre hook and for a tool.  *)
(* Texts are sequences of tokens, so that formatting is concatenation.     *)
(* The loop detector (modules/hooks-loop-detector, LoopDetectorHook) is a  *)
(* hook handler; it is called on its own, or by the orchestrator's         *)
(* tool:post notification when it is mounted on the orchestrator's hooks.  *)
(***************************************************************************)
EXTENDS Integers, Sequences, FiniteSets, TLC

\* ------------------------------------------------------------------ bounds
MaxIterations == 3
MaxToolCalls == 2
LowMaxIterations == 80
MaxWindow == 6
MaxExtra == 1

\* ------------------------------------------------------- program constants
DefaultMaxIterations == 100
DefaultWarnAt == <<75, 90>>
DefaultDetectionWindow == 10
DefaultSimilarityThreshold == 85
MinEntries == 5

VARIABLES
    max_iterations,   \* self.max_iterations
    warn_at,          \* self.warn_at (a list)
    stop_on_error,    \* self.stop_on_error
    tools,            \* the names registered in the tools dict given to execute()
    iteration_count,  \* self.iteration_count
    pc,               \* where execute() stands
    tool_calls,       \* the tool calls parsed from the current response
    tc_idx,           \* index of the tool call being processed
    messages,         \* what this invocation appended to the context
    trace,            \* the calls made on hooks, provider, tools and context, in order
    result,           \* what execute() returned or raised
    invocation,       \* "none", then "first", then "later": which execute() this is
    previous,         \* the invocation before this one, where it is kept for comparison
    second            \* another execute() under way beside this one

VARIABLES
    detection_window,       \* self.detection_window
    similarity_threshold,   \* self.similarity_threshold, in hundredths
    action_on_detect,       \* self.action_on_detect
    apply_to_sub_sessions,  \* self.apply_to_sub_sessions
    recent_calls,           \* self.recent_calls, a deque of signatures
    already_warned,         \* self.already_warned
    mounted,                \* the hook is registered for tool:post on the orchestrator's hooks
    universe,               \* the tool calls the notifications can report
    pushed,                 \* the tool calls whose signature a direct call appended, in order
    loop_verdict,           \* what the last _detect_loop returned
    hook_result,            \* what the last __call__ returned
    detections,             \* how many times "Loop detected" was logged
    call_log                \* the calls conversations made on a shared hook, in order

detector_config == <<detection_window, similarity_threshold, action_on_detect,
                     apply_to_sub_sessions, mounted, universe>>

detector_state == <<recent_calls, already_warned, pushed, loop_verdict, hook_result,
                    detections, call_log>>

detector == <<detector_config, detector_state>>

vars == <<max_iterations, warn_at, stop_on_error, tools, iteration_count, pc,
          tool_calls, tc_idx, messages, trace, result, invocation, previous, second,
          detector>>

config == <<max_iterations, warn_at, stop_on_error, tools>>

\* ------------------------------------------------------------------- data
Range(s) == {s[i] : i \in DOMAIN s}

Last(s) == s[Len(s)]

NoId == <<0, 0>>

NoneContent == [k |-> "none", s |-> <<>>, b |-> <<>>]

StrContent(t) == [k |-> "str", s |-> t, b |-> <<>>]

BlockContent(bs) == [k |-> "blocks", s |-> <<>>, b |-> bs]

TextBlock(t) == [hasText |-> TRUE, text |-> t]

OtherBlock == [hasText |-> FALSE, text |-> <<>>]

\* Python truthiness of a response content: None, "" and [] are falsy.
Truthy(c) ==
    CASE c.k = "str" -> c.s # <<>>
      [] c.k = "blocks" -> c.b # <<>>
      [] OTHER -> FALSE

\* getattr(response, "content", None) or ""
raw_content(c) == IF Truthy(c) THEN c ELSE StrContent(<<>>)

RECURSIVE JoinBlocks(_)
JoinBlocks(bs) ==
    IF bs = <<>> THEN <<>>
    ELSE (IF Head(bs).hasText THEN Head(bs).text ELSE <<>>) \o JoinBlocks(Tail(bs))

content_to_string(c) ==
    CASE c.k = "str" -> c.s
      [] c.k = "blocks" -> JoinBlocks(c.b)
      [] OTHER -> <<"None">>

serialize_content(c) ==
    CASE c.k = "str" -> c
      [] c.k = "blocks" -> c
      [] OTHER -> StrContent(<<"None">>)

Msg ==
    [role |-> "", content |-> NoneContent, tool_calls |-> <<>>, name |-> "",
     tool_call_id |-> NoId, template |-> "", iteration |-> 0, max |-> 0]

UserMsg(prompt) == [Msg EXCEPT !.role = "user", !.content = StrContent(prompt)]

\* the f-string of _inject_warning: the current and the maximum iteration
WarningMsg(c, m) ==
    [Msg EXCEPT !.role = "system", !.template = "iteration_warning",
                !.iteration = c, !.max = m]

\* the f-string of _handle_limit_reached
TerminationMsg(m) ==
    [Msg EXCEPT !.role = "system", !.template = "max_iterations_reached", !.max = m]

AssistantMsg(raw, tcs) ==
    [Msg EXCEPT !.role = "assistant", !.content = serialize_content(raw),
                !.tool_calls = tcs]

ToolMsg(tc, text) ==
    [Msg EXCEPT !.role = "tool", !.name = tc.name, !.tool_call_id = tc.id,
                !.content = StrContent(text)]

\* mutant: the injected message is always a system message
InjectedRoleSystem(v) == "system"

\* getattr(pre_result, "context_injection_role", "system") or "system"
InjectedRole(v) ==
    IF v.context_injection_role = "" THEN "system" ELSE v.context_injection_role

InjectedMsg(v) ==
    [Msg EXCEPT !.role = InjectedRole(v), !.content = StrContent(v.context_injection)]

\* ---------------------------------------------------------- tool results
EmptyOutput == <<"(empty output)">>

\* a Python value: None, a text or an integer
NoneVal == [k |-> "none", s |-> <<>>, n |-> 0]

StrVal(t) == [k |-> "str", s |-> t, n |-> 0]

IntVal(i) == [k |-> "int", s |-> <<>>, n |-> i]

\* Python truthiness: None, "" and 0 are falsy
ValTruthy(v) == (v.k = "str" /\ v.s # <<>>) \/ (v.k = "int" /\ v.n # 0)

DigitChars == <<"0", "1", "2", "3", "4", "5", "6", "7", "8", "9">>

RECURSIVE Digits(_)
Digits(i) == IF i < 10 THEN DigitChars[i + 1] ELSE Digits(i \div 10) \o DigitChars[(i % 10) + 1]

\* str(v)
ValText(v) ==
    CASE v.k = "str" -> v.s
      [] v.k = "int" -> IF v.n < 0 THEN <<"-" \o Digits(0 - v.n)>> ELSE <<Digits(v.n)>>
      [] OTHER -> <<"None">>

\* a result object with an output dict holding stdout and stderr
DictResult(out, err) == [shape |-> "dict", stdout |-> out, stderr |-> err, value |-> NoneVal]

\* a result object whose output is a scalar
OutputResult(v) == [shape |-> "output", stdout |-> NoneVal, stderr |-> NoneVal, value |-> v]

\* a result without an output attribute
BareResult(v) == [shape |-> "bare", stdout |-> NoneVal, stderr |-> NoneVal, value |-> v]

\* mutant: the two streams are joined without the stderr label
NormalizeResultUnlabelled(r) ==
    IF r.shape = "dict"
    THEN LET out == IF ValTruthy(r.stdout) THEN <<r.stdout.s>> ELSE <<>>
             err == IF ValTruthy(r.stderr) THEN <<r.stderr.s>> ELSE <<>>
             parts == out \o err
         IN  IF parts = <<>> THEN EmptyOutput
             ELSE IF Len(parts) = 1 THEN parts[1]
             ELSE parts[1] \o <<"\n">> \o parts[2]
    ELSE IF ValTruthy(r.value) THEN ValText(r.value) ELSE EmptyOutput

\* the text _execute_tool returns for a result; stdout and stderr are texts or None
NormalizeResult(r) ==
    IF r.shape = "dict"
    THEN LET out == IF ValTruthy(r.stdout) THEN <<r.stdout.s>> ELSE <<>>
             err == IF ValTruthy(r.stderr) THEN <<(<<"stderr: ">> \o r.stderr.s)>> ELSE <<>>
             parts == out \o err
         IN  IF parts = <<>> THEN EmptyOutput
             ELSE IF Len(parts) = 1 THEN parts[1]
             ELSE parts[1] \o <<"\n">> \o parts[2]
    ELSE IF ValTruthy(r.value) THEN ValText(r.value) ELSE EmptyOutput

NotFoundText(name) == <<"Tool '", name, "' not found">>

\* hooks.emit returned None
NoVerdict ==
    [action |-> "none", reason |-> <<>>, context_injection |-> <<>>,
     context_injection_role |-> ""]

\* one entry of the trace
Ev ==
    [op |-> "", name |-> "", tool |-> "", id |-> NoId, iteration |-> 0,
     status |-> "", wrap_up |-> FALSE, tools |-> FALSE, ok |-> TRUE,
     content |-> NoneContent, calls |-> <<>>, ret |-> "", text |-> <<>>, msg |-> 0,
     result |-> BareResult(NoneVal), verdict |-> NoVerdict]

Emit(name) == [Ev EXCEPT !.op = "emit", !.name = name]

EmitIter(name, c, wrap) ==
    [Ev EXCEPT !.op = "emit", !.name = name, !.iteration = c, !.wrap_up = wrap]

EmitTool(name, tc) ==
    [Ev EXCEPT !.op = "emit", !.name = name, !.tool = tc.name, !.id = tc.id]

\* hooks.emit("tool:pre", ...) and the verdict it returned
EmitPre(tc, v) ==
    [Ev EXCEPT !.op = "emit", !.name = "tool:pre", !.tool = tc.name, !.id = tc.id,
               !.ret = v.action, !.text = v.reason, !.verdict = v]

\* mutant: the notification counts one turn more than were made
EmitCompleteNext(c, status) ==
    [Ev EXCEPT !.op = "emit", !.name = "orchestrator:complete", !.iteration = c + 1,
               !.status = status]

EmitComplete(c, status) ==
    [Ev EXCEPT !.op = "emit", !.name = "orchestrator:complete", !.iteration = c,
               !.status = status]

\* provider.complete(chat_request) returned resp; offered: the request had tools
Complete(offered, resp) ==
    [Ev EXCEPT !.op = "complete", !.tools = offered, !.ok = TRUE,
               !.content = resp.content, !.calls = resp.tool_calls]

\* provider.complete(chat_request) raised e
CompleteFailed(offered, e) ==
    [Ev EXCEPT !.op = "complete", !.tools = offered, !.ok = FALSE, !.text = e]

\* tool.execute(arguments) returned, or raised o.error
ToolExecute(tc, o) ==
    [Ev EXCEPT !.op = "execute", !.tool = tc.name, !.id = tc.id, !.ok = ~o.raises,
               !.text = o.error, !.result = o.result]

\* hooks.emit("tool:post", ...) and what it returned
EmitPost(tc, ret) ==
    [Ev EXCEPT !.op = "emit", !.name = "tool:post", !.tool = tc.name, !.id = tc.id,
               !.ret = ret]

\* context.add_message(m): m is messages[n]
Add(n) == [Ev EXCEPT !.op = "add", !.msg = n]

NoResult == [kind |-> "none", text |-> <<>>]

Returned(t) == [kind |-> "returned", text |-> t]

Raised(e) == [kind |-> "raised", text |-> e]

\* what an invocation did: its calls, its messages and how it ended
Finished(tr, msgs, res) == [kept |-> TRUE, trace |-> tr, messages |-> msgs, result |-> res]

\* no other execute() is under way
NoSecond == [shared |-> FALSE, pc |-> "idle", count |-> 0, interfered |-> FALSE]

\* no invocation is kept
NoRun == [kept |-> FALSE, trace |-> <<>>, messages |-> <<>>, result |-> NoResult]

\* invocations are kept from now on
KeepRuns == Finished(<<>>, <<>>, NoResult)

\* ---------------------------------------------------- decisions of the code
\* mutant: a threshold that was passed keeps warning
WarnDueFrom(c, w) == \E v \in Range(w) : c >= v

\* self.iteration_count in self.warn_at
WarnDue(c, w) == c \in Range(w)

\* mutants of the limit check: off by one, and never
AtLimitOffByOne(c, m) == c > m

AtLimitNever(c, m) == FALSE

\* self.iteration_count >= self.max_iterations
AtLimit(c, m) == c >= m

\* tools_list is None unless the tools dict is non-empty
ToolsOffered(registry) == registry # {}

\* mutant: the wrap-up request offers the tools like any other request
WrapUpToolsOffered(registry) == registry # {}

\* the wrap-up request is built with tools=None
WrapUpTools(registry) == FALSE

\* mutant: a deny verdict is not looked at
IsDenyIgnored(v) == FALSE

\* pre_result and pre_result.action == "deny"
IsDeny(v) == v.action = "deny"

\* pre_result and pre_result.action == "inject_context"
IsInject(v) == v.action = "inject_context"

\* mutant: the registry lookup is not checked
ToolFoundAlways(name, registry) == TRUE

\* tools.get(tool_call.name) is truthy
ToolFound(name, registry) == name \in registry

\* mutant: a response without tool calls does not leave the loop
AfterResponseLoops(tcs) == IF tcs = <<>> THEN "loop" ELSE "tool_pre"

\* where execute() goes once the assistant message is appended
AfterResponse(tcs) == IF tcs = <<>> THEN "returned" ELSE "tool_pre"

\* mutant: a provider failure is swallowed and the request is retried
AfterProviderErrorRetries == "loop"

\* the except clause of the tool-enabled provider call ends in `raise`
AfterProviderError == "raised"

\* mutant: stop_on_error is not looked at
AfterToolErrorContinues(stop) == "continue"

\* the except clause of _execute_tool: `if self.stop_on_error: raise`
AfterToolError(stop) == IF stop THEN "raised" ELSE "continue"

\* mutant: a deny returned by tool:post replaces the tool's result
AfterPostHonoured(ret) == IF ret = "deny" THEN "blocked" ELSE "normalize"

\* _execute_tool does not look at what hooks.emit("tool:post") returned
AfterPost(ret) == "normalize"

\* mutant: the two branches of the wrap-up report each other's status
WrapUpStatusSwapped(ok) == IF ok THEN "error" ELSE "incomplete"

\* status of orchestrator:complete in _handle_limit_reached
WrapUpStatus(ok) == IF ok THEN "incomplete" ELSE "error"

\* ------------------------------------------------------- the loop detector
\* the keys of a tool input, in the order sort_keys gives them
Keys == <<"cmd", "path">>

KeyRank(k) == CHOOSE i \in DOMAIN Keys : Keys[i] = k

\* a tool input: a dict in insertion order; json: json.dumps accepts it
ToolInput(items) == [items |-> items, json |-> TRUE]

RECURSIVE InsertItem(_, _)
InsertItem(sorted, it) ==
    IF sorted = <<>> THEN <<it>>
    ELSE IF KeyRank(it[1]) < KeyRank(Head(sorted)[1]) THEN <<it>> \o sorted
    ELSE <<Head(sorted)>> \o InsertItem(Tail(sorted), it)

RECURSIVE SortItems(_)
SortItems(items) ==
    IF items = <<>> THEN <<>> ELSE InsertItem(SortItems(Tail(items)), Head(items))

RECURSIVE ItemsText(_)
ItemsText(items) ==
    IF items = <<>> THEN ""
    ELSE Head(items)[1] \o "=" \o Head(items)[2] \o ";" \o ItemsText(Tail(items))

\* mutant: the serialization keeps the insertion order of the keys
dumps_unsorted(input) == "{" \o ItemsText(input.items) \o "}"

\* json.dumps(tool_input, sort_keys=True)
dumps_sorted(input) == "{" \o ItemsText(SortItems(input.items)) \o "}"

\* str(tool_input): the text of the dict in insertion order
str_input(input) == "<" \o ItemsText(input.items) \o ">"

\* hash(text) as the f-string prints it: one text without ':'; equal texts
\* hash alike and different texts are taken to hash differently
hash(text) == "#" \o text

\* the payload of a notification
Data(name, input, parent) == [tool_name |-> name, tool_input |-> input, parent_id |-> parent]

\* _compute_signature: f"{tool_name}:{args_hash}", one token per piece
compute_signature(data) ==
    LET args_hash == IF data.tool_input.json
                     THEN hash(dumps_sorted(data.tool_input))
                     ELSE hash(str_input(data.tool_input))
    IN  data.tool_name \o <<":">> \o <<args_hash>>

HasColon(sig) == \E i \in DOMAIN sig : sig[i] = ":"

FirstColon(sig) == CHOOSE i \in DOMAIN sig : sig[i] = ":" /\ \A j \in 1..(i - 1) : sig[j] # ":"

\* sig.split(":", 1): what stands before, and after, the first ':'
SplitName(sig) == SubSeq(sig, 1, FirstColon(sig) - 1)

SplitHash(sig) == SubSeq(sig, FirstColon(sig) + 1, Len(sig))

\* _calculate_similarity, doubled: 2 for 1.0, 1 for 0.5, 0 for 0.0
calculate_similarity(sig1, sig2) ==
    IF ~HasColon(sig1) \/ ~HasColon(sig2) THEN 0
    ELSE IF SplitName(sig1) # SplitName(sig2) THEN 0
    ELSE IF SplitHash(sig1) = SplitHash(sig2) THEN 2
    ELSE 1

\* deque(maxlen=n).append(x)
PushSig(q, x, n) ==
    IF n = 0 THEN <<>>
    ELSE IF Len(q) < n THEN Append(q, x)
    ELSE Append(Tail(q), x)

\* what _detect_loop returns: is_loop and the pieces of the description
NoPattern == [is_loop |-> FALSE, wording |-> "", tool |-> <<>>, count |-> 0, doubled_sum |-> 0]

\* "Same tool '{tool_name}' called {len(recent)} times with identical arguments"
ExactRepeat(name, n) ==
    [is_loop |-> TRUE, wording |-> "same_tool", tool |-> name, count |-> n, doubled_sum |-> 0]

\* "Repetitive pattern detected: tool '{tool_name}' similarity={avg_similarity:.2f}"
Repetitive(name, s) ==
    [is_loop |-> TRUE, wording |-> "repetitive", tool |-> name, count |-> 0, doubled_sum |-> s]

\* mutant: the last five entries decide the exact repeat
AllIdenticalLastFive(recent) ==
    \A i \in (Len(recent) - 4)..Len(recent) : recent[i] = recent[Len(recent)]

\* identical_count == len(recent)
AllIdentical(recent) == \A i \in DOMAIN recent : recent[i] = recent[1]

\* mutant: the average has to exceed the threshold
ReachesThresholdStrictly(s, threshold) == s * 100 > threshold * 8

\* avg_similarity >= self.similarity_threshold, s being the doubled sum of 4 scores
ReachesThreshold(s, threshold) == s * 100 >= threshold * 8

\* mutant: the exact repeat is tested before the size of the window
detect_loop_unguarded(recent, threshold) ==
    IF AllIdentical(recent) THEN ExactRepeat(SplitName(recent[1]), Len(recent))
    ELSE IF Len(recent) < MinEntries THEN NoPattern
    ELSE LET last_five == SubSeq(recent, Len(recent) - 4, Len(recent))
             s == calculate_similarity(last_five[1], last_five[2])
                  + calculate_similarity(last_five[2], last_five[3])
                  + calculate_similarity(last_five[3], last_five[4])
                  + calculate_similarity(last_five[4], last_five[5])
         IN  IF ReachesThreshold(s, threshold)
             THEN Repetitive(SplitName(last_five[1]), s)
             ELSE NoPattern

\* _detect_loop
detect_loop(recent, threshold) ==
    IF Len(recent) < MinEntries THEN NoPattern
    ELSE IF AllIdentical(recent) THEN ExactRepeat(SplitName(recent[1]), Len(recent))
    ELSE LET last_five == SubSeq(recent, Len(recent) - 4, Len(recent))
             s == calculate_similarity(last_five[1], last_five[2])
                  + calculate_similarity(last_five[2], last_five[3])
                  + calculate_similarity(last_five[3], last_five[4])
                  + calculate_similarity(last_five[4], last_five[5])
         IN  IF ReachesThreshold(s, threshold)
             THEN Repetitive(SplitName(last_five[1]), s)
             ELSE NoPattern

\* HookResult(action="continue")
ContinueResult ==
    [action |-> "continue", template |-> "", description |-> NoPattern,
     context_injection_role |-> ""]

\* mutant: every value other than deny is treated as warn
handle_detection_warns(description, action) ==
    IF action = "deny"
    THEN [ContinueResult EXCEPT !.action = "deny", !.template = "loop_blocked",
                                !.description = description]
    ELSE [ContinueResult EXCEPT !.action = "inject_context", !.template = "system_reminder",
                                !.description = description,
                                !.context_injection_role = "system"]

\* _handle_detection
handle_detection(description, action) ==
    IF action = "deny"
    THEN [ContinueResult EXCEPT !.action = "deny", !.template = "loop_blocked",
                                !.description = description]
    ELSE IF action = "warn"
    THEN [ContinueResult EXCEPT !.action = "inject_context", !.template = "system_reminder",
                                !.description = description,
                                !.context_injection_role = "system"]
    ELSE ContinueResult

\* mutant: every detected pattern escalates
EscalatesAgain(is_loop, warned) == is_loop

\* is_loop and not self.already_warned
Escalates(is_loop, warned) == is_loop /\ ~warned

\* mutant: a sub-session's notification is handled like any other
SkipsNever(apply, data) == FALSE

\* not self.apply_to_sub_sessions and data.get("parent_id")
Skips(apply, data) == ~apply /\ data.parent_id # ""

\* LoopDetectorHook.__call__(event, data)
HookCall(event, data) ==
    IF Skips(apply_to_sub_sessions, data) \/ event # "tool:post"
    THEN /\ hook_result' = ContinueResult
         /\ UNCHANGED <<recent_calls, already_warned, loop_verdict, detections>>
    ELSE LET window == PushSig(recent_calls, compute_signature(data), detection_window)
             verdict == detect_loop(window, similarity_threshold)
         IN  /\ recent_calls' = window
             /\ loop_verdict' = verdict
             /\ IF Escalates(verdict.is_loop, already_warned)
                THEN /\ already_warned' = TRUE
                     /\ detections' = detections + 1
                     /\ hook_result' = handle_detection(verdict, action_on_detect)
                ELSE /\ hook_result' = ContinueResult
                     /\ UNCHANGED <<already_warned, detections>>

\* the hook is called by whatever emits the event
DetectorStep(event, data) ==
    /\ HookCall(event, data)
    /\ pushed' = IF Skips(apply_to_sub_sessions, data) \/ event # "tool:post"
                 THEN pushed
                 ELSE Append(pushed, [tool_name |-> data.tool_name,
                                      tool_input |-> data.tool_input])
    /\ UNCHANGED <<detector_config, config, second, iteration_count, pc, tool_calls, tc_idx,
                   messages, trace, result, invocation, previous>>

\* a notification of the one conversation the hook serves
DetectorCall(event, data) ==
    /\ DetectorStep(event, data)
    /\ call_log' = call_log

\* a notification of one of the conversations whose hooks hold the same instance
SessionCall(session, event, data) ==
    /\ DetectorStep(event, data)
    /\ call_log' = Append(call_log, [session |-> session, event |-> event,
                                     parent_id |-> data.parent_id,
                                     tool_name |-> data.tool_name,
                                     tool_input |-> data.tool_input])

\* ------------------------------------------------------------------ steps
CurrentCall == tool_calls[tc_idx]

\* mutant: the loop steps over every second tool call
NextCallSkips ==
    IF tc_idx + 1 < Len(tool_calls)
    THEN /\ tc_idx' = tc_idx + 2
         /\ pc' = "tool_pre"
    ELSE /\ tc_idx' = 0
         /\ pc' = "loop"

\* the end of one pass of `for tool_call in tool_calls`
NextCall ==
    IF tc_idx < Len(tool_calls)
    THEN /\ tc_idx' = tc_idx + 1
         /\ pc' = "tool_pre"
    ELSE /\ tc_idx' = 0
         /\ pc' = "loop"

\* execute(): select the provider, append the prompt, reset the counter
Execute(prompt) ==
    /\ pc \in {"idle", "returned", "raised"}
    /\ invocation' = IF invocation = "none" THEN "first" ELSE "later"
    /\ messages' = <<UserMsg(prompt)>>
    /\ trace' = <<Add(1)>>
    /\ iteration_count' = 0
    /\ tool_calls' = <<>>
    /\ tc_idx' = 0
    /\ result' = NoResult
    /\ pc' = "loop"
    /\ previous' = IF previous = NoRun THEN NoRun ELSE Finished(trace, messages, result)
    /\ UNCHANGED <<config, second, detector>>

\* the head of `while True`: count, warn, check the limit, announce the request
Iterate ==
    /\ pc = "loop"
    /\ LET c == iteration_count + 1
           warned == WarnDue(c, warn_at)
           msgs1 == IF warned
                    THEN Append(messages, WarningMsg(c, max_iterations))
                    ELSE messages
           tr1 == IF warned THEN Append(trace, Add(Len(msgs1))) ELSE trace
       IN  /\ iteration_count' = c
           /\ IF AtLimit(c, max_iterations)
              THEN /\ messages' = Append(msgs1, TerminationMsg(max_iterations))
                   /\ trace' = tr1 \o <<EmitIter("orchestrator:limit_reached", c, FALSE),
                                        Add(Len(msgs1) + 1),
                                        EmitIter("provider:request", c, TRUE)>>
                   /\ pc' = "wrapup_call"
              ELSE /\ messages' = msgs1
                   /\ trace' = Append(tr1, EmitIter("provider:request", c, FALSE))
                   /\ pc' = "provider_call"
    /\ UNCHANGED <<config, second, tool_calls, tc_idx, result, invocation, detector, previous>>

\* provider.complete returns resp: parse it, append the assistant message
ProviderRespond(resp) ==
    /\ pc = "provider_call"
    /\ LET raw == raw_content(resp.content)
           tcs == resp.tool_calls
           done == AfterResponse(tcs) = "returned"
       IN  /\ messages' = Append(messages, AssistantMsg(raw, tcs))
           /\ trace' = trace
                       \o <<Complete(ToolsOffered(tools), resp),
                            Emit("provider:response"),
                            Add(Len(messages) + 1)>>
                       \o (IF done
                           THEN <<EmitComplete(iteration_count, "success")>>
                           ELSE <<>>)
           /\ tool_calls' = tcs
           /\ pc' = AfterResponse(tcs)
           /\ IF done
              THEN /\ tc_idx' = 0
                   /\ result' = Returned(content_to_string(raw))
              ELSE /\ tc_idx' = 1
                   /\ result' = result
    /\ UNCHANGED <<config, second, iteration_count, invocation, detector, previous>>

\* provider.complete raises e
ProviderRaise(e) ==
    /\ pc = "provider_call"
    /\ trace' = trace \o <<CompleteFailed(ToolsOffered(tools), e),
                           [Emit("provider:error") EXCEPT !.text = e]>>
    /\ pc' = AfterProviderError
    /\ result' = IF AfterProviderError = "raised" THEN Raised(e) ELSE result
    /\ UNCHANGED <<config, second, iteration_count, tool_calls, tc_idx, messages, invocation, detector, previous>>

\* hooks.emit("tool:pre", ...) returns v
ToolPre(v) ==
    /\ pc = "tool_pre"
    /\ LET tc == CurrentCall
           pre == EmitPre(tc, v)
       IN  IF IsDeny(v)
           THEN /\ messages' = Append(messages,
                                      ToolMsg(tc, <<"Tool blocked by hook: ">> \o v.reason))
                /\ trace' = trace \o <<pre, Add(Len(messages) + 1)>>
                /\ NextCall
           ELSE IF IsInject(v)
           THEN /\ messages' = Append(messages, InjectedMsg(v))
                /\ trace' = trace \o <<pre, Add(Len(messages) + 1)>>
                /\ pc' = "tool_exec"
                /\ tc_idx' = tc_idx
           ELSE /\ messages' = messages
                /\ trace' = Append(trace, pre)
                /\ pc' = "tool_exec"
                /\ tc_idx' = tc_idx
    /\ UNCHANGED <<config, second, iteration_count, tool_calls, result, invocation, detector, previous>>

\* what hooks.emit("tool:post") returns: the verdict of the mounted detector
PostReturn(res) == IF mounted THEN res.action ELSE ""

\* the payload of the orchestrator's tool:post notification: no parent_id
PostData(tc) == Data(<<tc.name>>, ToolInput(<<<<"cmd", tc.arguments>>>>), "")

\* mutant: observers are notified before the tool runs
PostThenExecute(tc, o, ret) == <<EmitPost(tc, ret), ToolExecute(tc, o)>>

\* result = await tool.execute(arguments), then hooks.emit("tool:post", ...)
ExecuteThenPost(tc, o, ret) == <<ToolExecute(tc, o), EmitPost(tc, ret)>>

\* _execute_tool, then the tool-role message; o is what tool.execute does
ToolFinish(o) ==
    /\ pc = "tool_exec"
    /\ LET tc == CurrentCall
           n == Len(messages) + 1
       IN  IF ~ToolFound(tc.name, tools)
           THEN /\ messages' = Append(messages,
                                      ToolMsg(tc, <<"Error: ">> \o NotFoundText(tc.name)))
                /\ trace' = trace \o <<EmitTool("tool:error", tc), Add(n)>>
                /\ result' = result
                /\ NextCall
                /\ UNCHANGED detector_state
           ELSE IF ~o.raises
           THEN /\ IF mounted
                   THEN /\ HookCall("tool:post", PostData(tc))
                        /\ pushed' = pushed
                        /\ call_log' = call_log
                   ELSE UNCHANGED detector_state
                /\ messages' = Append(messages,
                                      ToolMsg(tc, IF AfterPost(PostReturn(hook_result')) = "normalize"
                                                  THEN NormalizeResult(o.result)
                                                  ELSE <<"Tool blocked by hook">>))
                /\ trace' = trace \o ExecuteThenPost(tc, o, PostReturn(hook_result'))
                                   \o <<Add(n)>>
                /\ result' = result
                /\ NextCall
           ELSE IF AfterToolError(stop_on_error) = "raised"
           THEN /\ messages' = messages
                /\ trace' = trace \o <<ToolExecute(tc, o), EmitTool("tool:error", tc)>>
                /\ result' = Raised(o.error)
                /\ pc' = "raised"
                /\ tc_idx' = tc_idx
                /\ UNCHANGED detector_state
           ELSE /\ messages' = Append(messages,
                                      ToolMsg(tc, <<"Tool execution failed: ">> \o o.error))
                /\ trace' = trace \o <<ToolExecute(tc, o),
                                       EmitTool("tool:error", tc), Add(n)>>
                /\ result' = result
                /\ NextCall
                /\ UNCHANGED detector_state
    /\ UNCHANGED <<config, second, iteration_count, tool_calls, invocation, detector_config, previous>>

\* mutant: the wrap-up message keeps the tool calls of the response
WrapUpMsgWithCalls(resp) == AssistantMsg(raw_content(resp.content), resp.tool_calls)

\* {"role": "assistant", "content": _serialize_content(raw_content)}
WrapUpMsg(resp) == AssistantMsg(raw_content(resp.content), <<>>)

\* _handle_limit_reached: the wrap-up provider.complete returns resp
WrapUpRespond(resp) ==
    /\ pc = "wrapup_call"
    /\ LET raw == raw_content(resp.content)
       IN  /\ messages' = Append(messages, WrapUpMsg(resp))
           /\ trace' = trace \o <<Complete(WrapUpTools(tools), resp),
                                  Emit("provider:response"),
                                  Add(Len(messages) + 1),
                                  EmitComplete(iteration_count, WrapUpStatus(TRUE))>>
           /\ result' = Returned(content_to_string(raw))
    /\ pc' = "returned"
    /\ UNCHANGED <<config, second, iteration_count, tool_calls, tc_idx, invocation, detector, previous>>

\* _handle_limit_reached: the wrap-up provider.complete raises e
WrapUpRaise(e) ==
    /\ pc = "wrapup_call"
    /\ trace' = trace \o <<CompleteFailed(WrapUpTools(tools), e),
                           EmitComplete(iteration_count, WrapUpStatus(FALSE))>>
    /\ result' = Returned(<<"Reached iteration limit. Failed to generate summary: ">> \o e)
    /\ pc' = "returned"
    /\ UNCHANGED <<config, second, iteration_count, tool_calls, tc_idx, messages, invocation, detector, previous>>

\* ----------------------------------------- a second execute() under way
\* mutant: the counter is one for all instances
SharesCounterAlways(s) == TRUE

\* self.iteration_count belongs to the instance: a second execute() counts
\* on the same attribute when it runs on the same instance
SharesCounter(s) == s.shared

\* the iteration_count the second invocation reads
SecondCount == IF SharesCounter(second) THEN iteration_count ELSE second.count

\* the first invocation is suspended at a provider, tool or hook call
Suspended == pc \notin {"idle", "returned", "raised"}

\* the second invocation runs up to its next suspension point: it writes
\* c to its iteration_count and stops at to
SecondStep(to, c) ==
    /\ iteration_count' = IF SharesCounter(second) THEN c ELSE iteration_count
    /\ second' = [second EXCEPT !.pc = to,
                                !.count = IF SharesCounter(second) THEN @ ELSE c,
                                !.interfered = @ \/ Suspended]
    /\ UNCHANGED <<config, pc, tool_calls, tc_idx, messages, trace, result, invocation,
                   previous, detector>>

\* execute(): self.iteration_count = 0
SecondExecute ==
    /\ second.pc = "idle"
    /\ SecondStep("loop", 0)

\* the head of the loop: count, then the limit check
SecondIterate ==
    /\ second.pc = "loop"
    /\ LET c == SecondCount + 1
       IN  SecondStep(IF AtLimit(c, max_iterations) THEN "wrapup_call" ELSE "provider_call", c)

\* its provider answers; its tool calls, if any, are run before it loops
SecondRespond(resp) ==
    /\ second.pc = "provider_call"
    /\ SecondStep(IF AfterResponse(resp.tool_calls) = "returned" THEN "returned" ELSE "loop",
                  SecondCount)

\* its wrap-up call comes back
SecondWrapUp ==
    /\ second.pc = "wrapup_call"
    /\ SecondStep("returned", SecondCount)

\* ------------------------------------------------------- the environment
ToolNames == {"t1", "t2"}

Prompts == {<<"p">>}

Errors == {<<"boom">>}

Contents ==
    {NoneContent, StrContent(<<"a">>),
     BlockContent(<<TextBlock(<<"b">>), OtherBlock, TextBlock(<<"c">>)>>)}

NameLists(k) == UNION {[1..j -> ToolNames] : j \in 0..k}

\* the calls of the n-th response: ids are unique in the invocation
MkCalls(n, names) ==
    [i \in 1..Len(names) |-> [id |-> <<n, i>>, name |-> names[i], arguments |-> "a1"]]

\* a response is a final text, or a request for tools
Responses(n, k) ==
    {[content |-> c, tool_calls |-> <<>>] : c \in Contents}
    \cup {[content |-> NoneContent, tool_calls |-> MkCalls(n, l)] : l \in NameLists(k) \ {<<>>}}

\* the wrap-up request offers no tools; a provider may still answer with a call
WrapUpResponses(n) ==
    {[content |-> c, tool_calls |-> <<>>] : c \in Contents}
    \cup {[content |-> StrContent(<<"a">>), tool_calls |-> MkCalls(n, <<"t1">>)]}

\* what hooks.emit("tool:pre") returns when a hook answers; the value None
\* (NoVerdict) is what it returns in the runs of NextWarn below
Verdicts ==
    {[NoVerdict EXCEPT !.action = "continue"],
     [NoVerdict EXCEPT !.action = "deny", !.reason = <<"why">>],
     [NoVerdict EXCEPT !.action = "inject_context", !.context_injection = <<"hint">>],
     [NoVerdict EXCEPT !.action = "inject_context", !.context_injection = <<"hint">>,
                       !.context_injection_role = "user"]}

NoOutcome == [raises |-> FALSE, result |-> BareResult(NoneVal), error |-> <<>>]

Ok(r) == [NoOutcome EXCEPT !.result = r]

Fails(e) == [NoOutcome EXCEPT !.raises = TRUE, !.error = e]

ToolResults == {DictResult(StrVal(<<"out">>), StrVal(<<"err">>))}

Outcomes == {Ok(r) : r \in ToolResults} \cup {Fails(e) : e \in Errors}

\* the tool calls requested so far in this invocation
ToolCallsSoFar == Cardinality({i \in DOMAIN trace : trace[i].op = "emit" /\ trace[i].name = "tool:pre"})
                  + (IF pc = "tool_pre" THEN Len(tool_calls) - tc_idx + 1
                     ELSE IF pc = "tool_exec" THEN Len(tool_calls) - tc_idx ELSE 0)

\* no run of the program counts past max_iterations
CountCap == max_iterations + 1

\* LoopDetectorHook.__init__: an empty window, nothing reported yet
DetectorFresh ==
    /\ recent_calls = <<>>
    /\ already_warned = FALSE
    /\ pushed = <<>>
    /\ loop_verdict = NoPattern
    /\ hook_result = ContinueResult
    /\ detections = 0
    /\ call_log = <<>>

\* the configuration __init__ reads when the config dict is empty
DetectorDefaults ==
    /\ detection_window = DefaultDetectionWindow
    /\ similarity_threshold = DefaultSimilarityThreshold
    /\ action_on_detect = "warn"
    /\ apply_to_sub_sessions = FALSE

\* no loop detector on the orchestrator's hooks
NotMounted ==
    /\ mounted = FALSE
    /\ universe = {}
    /\ DetectorDefaults
    /\ DetectorFresh

Init ==
    /\ max_iterations \in 1..MaxIterations
    /\ warn_at = <<2>>
    /\ stop_on_error \in BOOLEAN
    /\ tools = {"t1"}
    /\ iteration_count = 0
    /\ pc = "idle"
    /\ tool_calls = <<>>
    /\ tc_idx = 0
    /\ messages = <<>>
    /\ trace = <<>>
    /\ result = NoResult
    /\ invocation = "none"
    /\ second = NoSecond
    /\ previous = NoRun
    /\ NotMounted

Next ==
    \/ \E p \in Prompts : Execute(p)
    \/ iteration_count < CountCap /\ Iterate
    \/ \E r \in Responses(iteration_count, MaxToolCalls) :
          /\ Len(r.tool_calls) <= MaxToolCalls - ToolCallsSoFar
          /\ ProviderRespond(r)
    \/ \E e \in Errors : ProviderRaise(e)
    \/ \E v \in Verdicts : ToolPre(v)
    \/ \E o \in Outcomes : ToolFinish(o)
    \/ \E r \in WrapUpResponses(iteration_count) : WrapUpRespond(r)
    \/ \E e \in Errors : WrapUpRaise(e)

Spec == Init /\ [][Next]_vars

\* ---------------------------------------------- a provider that keeps going
\* One way on per iteration (a single tool call that runs), so that the
\* default ceiling of 100 iterations is reached.
WarnLists(n) == UNION {[1..j -> 1..n] : j \in 0..2}

OneCall(n) == [content |-> NoneContent, tool_calls |-> MkCalls(n, <<"t1">>)]

FinalText == [content |-> StrContent(<<"a">>), tool_calls |-> <<>>]

InitWarn ==
    /\ \/ /\ max_iterations \in 1..MaxIterations
          /\ warn_at \in WarnLists(MaxIterations)
       \/ /\ max_iterations \in {LowMaxIterations, DefaultMaxIterations}
          /\ warn_at = DefaultWarnAt
    /\ stop_on_error = FALSE
    /\ tools \in {{}, {"t1"}}
    /\ iteration_count = 0
    /\ pc = "idle"
    /\ tool_calls = <<>>
    /\ tc_idx = 0
    /\ messages = <<>>
    /\ trace = <<>>
    /\ result = NoResult
    /\ invocation = "none"
    /\ second = NoSecond
    /\ previous = NoRun
    /\ NotMounted

NextWarn ==
    \/ \E p \in Prompts : Execute(p)
    \/ iteration_count < CountCap /\ Iterate
    \/ \E r \in {OneCall(iteration_count), FinalText} : ProviderRespond(r)
    \/ \E e \in Errors : ProviderRaise(e)
    \/ ToolPre(NoVerdict)
    \/ ToolFinish(Ok(OutputResult(StrVal(<<"out">>))))
    \/ WrapUpRespond(FinalText)
    \/ \E e \in Errors : WrapUpRaise(e)

WarnSpec == InitWarn /\ [][NextWarn]_vars

\* the event loop resumes the coroutine whenever the awaited call completes
LiveSpec == InitWarn /\ [][NextWarn]_vars /\ WF_vars(NextWarn)

\* --------------------------------------------- a tool with every result
\* what a stream of a result dict holds: nothing, "", or a text
StreamVals == {NoneVal, StrVal(<<>>), StrVal(<<"out">>), StrVal(<<"err">>), StrVal(<<"l1", "l2">>)}

ScalarVals == {NoneVal, StrVal(<<>>), StrVal(<<"out">>)} \cup {IntVal(i) : i \in (0 - 1)..12}

AllResults ==
    {DictResult(out, err) : out \in StreamVals, err \in StreamVals}
    \cup {OutputResult(v) : v \in ScalarVals}
    \cup {BareResult(v) : v \in ScalarVals}

InitNorm ==
    /\ max_iterations = 2
    /\ warn_at = <<>>
    /\ stop_on_error \in BOOLEAN
    /\ tools = {"t1"}
    /\ iteration_count = 0
    /\ pc = "idle"
    /\ tool_calls = <<>>
    /\ tc_idx = 0
    /\ messages = <<>>
    /\ trace = <<>>
    /\ result = NoResult
    /\ invocation = "none"
    /\ second = NoSecond
    /\ previous = NoRun
    /\ NotMounted

NextNorm ==
    \/ \E p \in Prompts : Execute(p)
    \/ iteration_count < CountCap /\ Iterate
    \/ \E r \in {OneCall(iteration_count), FinalText} : ProviderRespond(r)
    \/ ToolPre(NoVerdict)
    \/ \E r \in AllResults : ToolFinish(Ok(r))
    \/ WrapUpRespond(FinalText)

NormSpec == InitNorm /\ [][NextNorm]_vars

\* ------------------------------- the detector on the orchestrator's hooks
\* mount() registers one LoopDetectorHook for tool:post; the provider of
\* NextWarn asks for the same tool call in every iteration
MountedStart ==
    /\ max_iterations = MinEntries + MaxIterations
    /\ warn_at = DefaultWarnAt
    /\ stop_on_error = FALSE
    /\ tools = {"t1"}
    /\ iteration_count = 0
    /\ pc = "idle"
    /\ tool_calls = <<>>
    /\ tc_idx = 0
    /\ messages = <<>>
    /\ trace = <<>>
    /\ result = NoResult
    /\ invocation = "none"
    /\ second = NoSecond
    /\ mounted = TRUE
    /\ universe = {}
    /\ detection_window = DefaultDetectionWindow
    /\ similarity_threshold = DefaultSimilarityThreshold
    /\ apply_to_sub_sessions = FALSE
    /\ action_on_detect \in {"warn", "deny", "log"}
    /\ DetectorFresh

InitLoop == MountedStart /\ previous = NoRun

LoopSpec == InitLoop /\ [][NextWarn]_vars

\* the same, each invocation being kept for comparison with the next
InitPair == MountedStart /\ previous = KeepRuns

PairSpec == InitPair /\ [][NextWarn]_vars

\* ------------------- a provider that repeats one call, whatever becomes of it
\* the n-th response asks for the one call of the named tool
CallFor(n, name) == [content |-> NoneContent, tool_calls |-> MkCalls(n, <<name>>)]

DenyVerdict == [NoVerdict EXCEPT !.action = "deny", !.reason = <<"why">>]

InitRepeat ==
    /\ max_iterations = MinEntries + MaxExtra
    /\ warn_at = DefaultWarnAt
    /\ stop_on_error \in BOOLEAN
    /\ tools = {"t1"}
    /\ iteration_count = 0
    /\ pc = "idle"
    /\ tool_calls = <<>>
    /\ tc_idx = 0
    /\ messages = <<>>
    /\ trace = <<>>
    /\ result = NoResult
    /\ invocation = "none"
    /\ second = NoSecond
    /\ previous = NoRun
    /\ mounted = TRUE
    /\ universe = {}
    /\ DetectorDefaults
    /\ DetectorFresh

\* one invocation: t1 is registered and runs or fails, t2 is not
\* registered, and a tool:pre hook denies some of the calls
NextRepeat ==
    \/ \E p \in Prompts : invocation = "none" /\ Execute(p)
    \/ Iterate
    \/ \E name \in ToolNames : ProviderRespond(CallFor(iteration_count, name))
    \/ ProviderRespond(FinalText)
    \/ \E v \in {NoVerdict, DenyVerdict} : ToolPre(v)
    \/ \E o \in Outcomes : ToolFinish(o)
    \/ WrapUpRespond(FinalText)

RepeatSpec == InitRepeat /\ [][NextRepeat]_vars

\* ----------------------- two invocations, on one instance or on two
InitOverlap ==
    /\ max_iterations \in 2..MaxIterations
    /\ warn_at = <<2>>
    /\ stop_on_error = FALSE
    /\ tools = {"t1"}
    /\ iteration_count = 0
    /\ pc = "idle"
    /\ tool_calls = <<>>
    /\ tc_idx = 0
    /\ messages = <<>>
    /\ trace = <<>>
    /\ result = NoResult
    /\ invocation = "none"
    /\ previous = NoRun
    /\ second \in {[NoSecond EXCEPT !.shared = b] : b \in BOOLEAN}
    /\ NotMounted

\* each invocation runs once; their steps interleave at the suspension points
NextOverlap ==
    \/ \E p \in Prompts : invocation = "none" /\ Execute(p)
    \/ Iterate
    \/ \E r \in {OneCall(iteration_count), FinalText} : ProviderRespond(r)
    \/ ToolPre(NoVerdict)
    \/ ToolFinish(Ok(OutputResult(StrVal(<<"out">>))))
    \/ WrapUpRespond(FinalText)
    \/ SecondExecute
    \/ SecondIterate
    \/ \E r \in {OneCall(SecondCount), FinalText} : SecondRespond(r)
    \/ SecondWrapUp

OverlapSpec == InitOverlap /\ [][NextOverlap]_vars

\* ------------------------------------------------ the detector on its own
InputX == ToolInput(<<<<"cmd", "ls">>, <<"path", "p">>>>)

\* the same dict as InputX, filled in the other order
InputXr == ToolInput(<<<<"path", "p">>, <<"cmd", "ls">>>>)

InputY == ToolInput(<<<<"cmd", "rm">>>>)

Call(name, input) == [tool_name |-> name, tool_input |-> input]

\* equality of two Python dicts: the same keys with the same values
SameInput(i1, i2) == Range(i1.items) = Range(i2.items)

\* one tool with three inputs, two of them equal dicts
SameToolCalls == {Call(<<"t1">>, InputX), Call(<<"t1">>, InputXr), Call(<<"t1">>, InputY)}

\* three tools, two of them with names that share what stands before the ':'
NamedCalls ==
    {Call(<<"t1">>, InputX), Call(<<"a", ":", "b">>, InputX), Call(<<"a", ":", "c">>, InputX)}

TwoCalls == {Call(<<"t1">>, InputX), Call(<<"t1">>, InputY)}

Windows == {MinEntries - 1, MinEntries, MaxWindow}

\* the defaults, and each setting changed on its own
InitDetector ==
    /\ \/ /\ detection_window \in Windows
          /\ universe \in {SameToolCalls, NamedCalls}
          /\ \/ /\ similarity_threshold = DefaultSimilarityThreshold
                /\ apply_to_sub_sessions = FALSE
                /\ action_on_detect \in {"warn", "deny", "log", "notify"}
             \/ /\ similarity_threshold = 50
                /\ apply_to_sub_sessions = FALSE
                /\ action_on_detect = "warn"
             \/ /\ similarity_threshold = DefaultSimilarityThreshold
                /\ apply_to_sub_sessions = TRUE
                /\ action_on_detect = "warn"
       \/ /\ DetectorDefaults
          /\ universe = TwoCalls
    /\ mounted = FALSE
    /\ DetectorFresh
    /\ max_iterations = DefaultMaxIterations
    /\ warn_at = DefaultWarnAt
    /\ stop_on_error = FALSE
    /\ tools = {}
    /\ iteration_count = 0
    /\ pc = "idle"
    /\ tool_calls = <<>>
    /\ tc_idx = 0
    /\ messages = <<>>
    /\ trace = <<>>
    /\ result = NoResult
    /\ invocation = "none"
    /\ second = NoSecond
    /\ previous = NoRun

\* notifications arrive one at a time; a parent_id marks a sub-session
NextDetector ==
    \E c \in universe, parent \in {"", "s1"}, event \in {"tool:post", "tool:pre"} :
        /\ Len(pushed) < detection_window + MaxExtra
        /\ DetectorCall(event, Data(c.tool_name, c.tool_input, parent))

DetectorSpec == InitDetector /\ [][NextDetector]_vars

\* ------------------------------------- one instance, several conversations
SingleCall == {Call(<<"t1">>, InputX)}

\* an orchestrator that stands by while the hook is called
StandsBy ==
    /\ max_iterations = DefaultMaxIterations
    /\ warn_at = DefaultWarnAt
    /\ stop_on_error = FALSE
    /\ tools = {}
    /\ iteration_count = 0
    /\ pc = "idle"
    /\ tool_calls = <<>>
    /\ tc_idx = 0
    /\ messages = <<>>
    /\ trace = <<>>
    /\ result = NoResult
    /\ invocation = "none"
    /\ second = NoSecond
    /\ previous = NoRun

\* a session and its sub-sessions notify one hook, with or without
\* apply_to_sub_sessions
InitSubSession ==
    /\ detection_window = MinEntries
    /\ similarity_threshold = DefaultSimilarityThreshold
    /\ action_on_detect = "warn"
    /\ apply_to_sub_sessions \in BOOLEAN
    /\ universe = SingleCall
    /\ mounted = FALSE
    /\ DetectorFresh
    /\ StandsBy

NextSubSession ==
    \E c \in universe, parent \in {"", "s1"}, event \in {"tool:post", "tool:pre"} :
        /\ Len(call_log) < detection_window + MaxExtra
        /\ SessionCall("A", event, Data(c.tool_name, c.tool_input, parent))

SubSessionSpec == InitSubSession /\ [][NextSubSession]_vars

\* two conversations whose hooks hold the same LoopDetectorHook
Sessions == {"A", "B"}

InitShared ==
    /\ detection_window \in {MinEntries, DefaultDetectionWindow}
    /\ similarity_threshold = DefaultSimilarityThreshold
    /\ action_on_detect = "warn"
    /\ apply_to_sub_sessions = FALSE
    /\ universe = SingleCall
    /\ mounted = FALSE
    /\ DetectorFresh
    /\ StandsBy

\* the tool:post notifications of the two conversations arrive in any order
NextShared ==
    \E c \in universe, session \in Sessions :
        /\ Len(call_log) < 2 * MinEntries + MaxExtra
        /\ SessionCall(session, "tool:post", Data(c.tool_name, c.tool_input, ""))

SharedSpec == InitShared /\ [][NextShared]_vars

\* ------------------------------------------------------ reading the trace
Done == pc \in {"returned", "raised"}

ProviderCalls == {i \in DOMAIN trace : trace[i].op = "complete"}

Emitted(name) == {i \in DOMAIN trace : trace[i].op = "emit" /\ trace[i].name = name}

\* where the termination message was appended
TermIdx ==
    {i \in DOMAIN trace :
        /\ trace[i].op = "add"
        /\ messages[trace[i].msg].template = "max_iterations_reached"}

\* the provider calls made after the termination message
WrapUpCalls == {i \in ProviderCalls : \E t \in TermIdx : i > t}

\* the tool-enabled provider calls
LoopCalls == ProviderCalls \ WrapUpCalls

Contains(text, sub) ==
    \E k \in 1..(Len(text) - Len(sub) + 1) : SubSeq(text, k, k + Len(sub) - 1) = sub

StartsWith(text, sub) == Len(text) >= Len(sub) /\ SubSeq(text, 1, Len(sub)) = sub

\* ----------------------------------------------------------------- claims

\* C1: with max_iterations = N > 0 an invocation makes at most N
\* provider.complete calls (tool-enabled requests plus the wrap-up request),
\* in the first and in every later invocation on the instance.
C1_AtMostNCalls == Cardinality(ProviderCalls) <= max_iterations

C1_Witness ==
    /\ pc = "returned"
    /\ invocation = "later"
    /\ max_iterations >= 3
    /\ Cardinality(ProviderCalls) = max_iterations

\* C2: an invocation that has started eventually returns or raises, also when
\* the provider answers every request with a tool call.
C2_Terminates == (pc \notin {"idle", "returned", "raised"}) ~> Done

C2_Witness ==
    /\ pc = "returned"
    /\ max_iterations = DefaultMaxIterations
    /\ Cardinality(LoopCalls) = max_iterations - 1
    /\ \A i \in LoopCalls : trace[i].ok /\ trace[i].calls # <<>>

\* C3: when iteration_count reaches max_iterations the termination message
\* is appended, then exactly one more provider call is made, with no tools
\* offered; its text is appended as an assistant message and returned, and if
\* it fails the invocation returns the failure text and does not raise.
C3_WrapUp ==
    /\ iteration_count <= max_iterations
    /\ (iteration_count >= max_iterations) <=> (TermIdx # {})
    /\ TermIdx # {} =>
          /\ Cardinality(TermIdx) = 1
          /\ pc \in {"wrapup_call", "returned"}
          /\ pc = "wrapup_call" =>
                /\ WrapUpCalls = {}
                /\ Last(messages).template = "max_iterations_reached"
                /\ Last(trace) = EmitIter("provider:request", iteration_count, TRUE)
          /\ pc = "returned" =>
                /\ Cardinality(WrapUpCalls) = 1
                /\ \A i \in WrapUpCalls :
                      /\ ~trace[i].tools
                      /\ \A j \in DOMAIN trace : j > i => trace[j].op \notin {"complete", "execute"}
                      /\ IF trace[i].ok
                         THEN LET raw == raw_content(trace[i].content)
                              IN  /\ Last(messages) = AssistantMsg(raw, <<>>)
                                  /\ \E j \in DOMAIN trace :
                                        /\ j > i
                                        /\ trace[j] = Add(Len(messages))
                                  /\ result = Returned(content_to_string(raw))
                         ELSE /\ Last(messages).template = "max_iterations_reached"
                              /\ result = Returned(
                                    <<"Reached iteration limit. Failed to generate summary: ">>
                                    \o trace[i].text)

C3_Witness ==
    /\ pc = "returned"
    /\ tools # {}
    /\ \E i \in WrapUpCalls : trace[i].ok /\ trace[i].calls # <<>>
    /\ \E i \in LoopCalls : trace[i].tools

\* C4 as claimed: an invocation that ends at the ceiling reports status
\* "incomplete" in orchestrator:complete, whether the wrap-up call succeeds
\* or fails.
C4_AlwaysIncomplete ==
    (pc = "returned" /\ TermIdx # {}) =>
        \A i \in Emitted("orchestrator:complete") : trace[i].status = "incomplete"

\* C4 amended: an invocation that ends at the ceiling emits one
\* orchestrator:complete, with status "incomplete" when the wrap-up call
\* succeeded and status "error" when the wrap-up call failed.
C4_StatusByOutcome ==
    (pc = "returned" /\ TermIdx # {}) =>
        /\ Cardinality(Emitted("orchestrator:complete")) = 1
        /\ \A i \in Emitted("orchestrator:complete") :
              \A c \in WrapUpCalls :
                 trace[i].status = (IF trace[c].ok THEN "incomplete" ELSE "error")

C4_Witness ==
    /\ pc = "returned"
    /\ \E c \in WrapUpCalls : ~trace[c].ok
    /\ \E i \in Emitted("orchestrator:complete") : trace[i].status = "error"

\* the warning messages, in the order they were appended
Warnings == SelectSeq(messages, LAMBDA m : m.template = "iteration_warning")

WarnedCounts == [i \in 1..Len(Warnings) |-> Warnings[i].iteration]

\* C5: a warning is appended in an iteration iff iteration_count equals a
\* value of warn_at, once per value also when warn_at repeats it. With
\* warn_at = [75, 90] a run to the ceiling has two warnings (75, 90) for
\* max_iterations = 100 and one warning (75) for max_iterations = 80.
C5_WarnAtEquality ==
    /\ \A c \in 1..iteration_count :
          Cardinality({i \in 1..Len(Warnings) : Warnings[i].iteration = c})
             = (IF c \in Range(warn_at) THEN 1 ELSE 0)
    /\ \A i \in 1..Len(Warnings) : Warnings[i].iteration \in 1..iteration_count
    /\ \A m \in DOMAIN messages :
          messages[m].template = "iteration_warning" =>
             \E i \in DOMAIN trace :
                /\ trace[i] = Add(m)
                /\ i < Len(trace)
                /\ trace[i + 1].op = "emit"
                /\ trace[i + 1].name \in {"provider:request", "orchestrator:limit_reached"}
                /\ trace[i + 1].iteration = messages[m].iteration
    /\ (TermIdx # {} /\ warn_at = DefaultWarnAt) =>
          /\ max_iterations = DefaultMaxIterations => WarnedCounts = <<75, 90>>
          /\ max_iterations = LowMaxIterations => WarnedCounts = <<75>>

C5_Witness ==
    /\ pc = "returned"
    /\ TermIdx # {}
    /\ max_iterations = DefaultMaxIterations
    /\ warn_at = DefaultWarnAt
    /\ Len(Warnings) = 2

\* C6: a response below the ceiling that parses to no tool call ends the
\* loop in that iteration: the assistant message is appended,
\* orchestrator:complete is emitted with status "success", the response text
\* is returned, and no tool:pre, tool invocation or provider call follows.
C6_NoToolCallsEnds ==
    \A i \in LoopCalls :
        (trace[i].ok /\ trace[i].calls = <<>>) =>
            LET raw == raw_content(trace[i].content)
            IN  /\ pc = "returned"
                /\ Len(trace) = i + 3
                /\ trace[i + 1] = Emit("provider:response")
                /\ trace[i + 2] = Add(Len(messages))
                /\ Last(messages) = AssistantMsg(raw, <<>>)
                /\ trace[i + 3] = EmitComplete(iteration_count, "success")
                /\ result = Returned(content_to_string(raw))

C6_Witness ==
    /\ pc = "returned"
    /\ TermIdx = {}
    /\ Cardinality(LoopCalls) = 2
    /\ \E i \in LoopCalls : trace[i].calls = <<>> /\ trace[i].content.k = "blocks"
    /\ result.text = <<"b", "c">>

\* the provider call whose response holds the tool call id
RespOf(id) ==
    CHOOSE c \in LoopCalls : \E k \in DOMAIN trace[c].calls : trace[c].calls[k].id = id

CallOf(id) ==
    LET cs == trace[RespOf(id)].calls
    IN  cs[CHOOSE k \in DOMAIN cs : cs[k].id = id]

IsLastCall(id) == id[2] = Len(trace[RespOf(id)].calls)

NextId(id) == <<id[1], id[2] + 1>>

\* trace[j] ends the handling of call id: execute() has gone on, or stands
\* ready to go on, to the next tool call, or to the next iteration after
\* the last tool call
GoesOn(j, id) ==
    IF Len(trace) = j
    THEN IF IsLastCall(id)
         THEN pc = "loop"
         ELSE pc = "tool_pre" /\ CurrentCall.id = NextId(id)
    ELSE IF IsLastCall(id)
         THEN \/ /\ trace[j + 1].op = "add"
                 /\ messages[trace[j + 1].msg].template = "iteration_warning"
              \/ /\ trace[j + 1].op = "emit"
                 /\ trace[j + 1].name \in {"provider:request", "orchestrator:limit_reached"}
         ELSE /\ trace[j + 1].op = "emit"
              /\ trace[j + 1].name = "tool:pre"
              /\ trace[j + 1].id = NextId(id)

Executions(id) == {j \in DOMAIN trace : trace[j].op = "execute" /\ trace[j].id = id}

\* C7: a tool call denied by tool:pre is never executed, gets no tool:post
\* and no tool:error, and its tool-role message contains the verdict's
\* reason; the loop goes on with the next tool call.
C7_DenySkipsTool ==
    \A i \in Emitted("tool:pre") :
        trace[i].ret = "deny" =>
            /\ Executions(trace[i].id) = {}
            /\ \A j \in Emitted("tool:post") \cup Emitted("tool:error") :
                  trace[j].id # trace[i].id
            /\ Len(trace) > i
            /\ trace[i + 1].op = "add"
            /\ LET m == messages[trace[i + 1].msg]
               IN  /\ m.role = "tool"
                   /\ m.tool_call_id = trace[i].id
                   /\ m.name = trace[i].tool
                   /\ trace[i].text # <<>>
                   /\ Contains(m.content.s, trace[i].text)
            /\ GoesOn(i + 1, trace[i].id)

C7_Witness ==
    \E i \in Emitted("tool:pre") :
        /\ trace[i].ret = "deny"
        /\ trace[i].tool \in tools
        /\ ~IsLastCall(trace[i].id)
        /\ Executions(NextId(trace[i].id)) # {}

\* C8: a tool call naming an unregistered tool never raises, with or
\* without stop_on_error: tool:error is emitted, a tool-role message starting
\* with "Error:" is appended for the call, and the loop goes on.
C8_UnknownToolContinues ==
    \A i \in Emitted("tool:pre") :
        (trace[i].tool \notin tools /\ trace[i].ret # "deny") =>
            LET j == i + (IF trace[i].ret = "inject_context" THEN 2 ELSE 1)
            IN  IF Len(trace) < j
                THEN pc = "tool_exec"
                ELSE /\ trace[j] = EmitTool("tool:error", CallOf(trace[i].id))
                     /\ Executions(trace[i].id) = {}
                     /\ Len(trace) > j
                     /\ trace[j + 1].op = "add"
                     /\ LET m == messages[trace[j + 1].msg]
                        IN  /\ m.role = "tool"
                            /\ m.tool_call_id = trace[i].id
                            /\ StartsWith(m.content.s, <<"Error: ">>)
                     /\ GoesOn(j + 1, trace[i].id)

C8_Witness ==
    /\ stop_on_error
    /\ tools # {}
    /\ \E i \in Emitted("tool:error") :
          /\ trace[i].tool \notin tools
          /\ \E c \in LoopCalls : c > i

\* C9: when a registered tool's execute raises, tool:error is emitted; with
\* stop_on_error = false the error text becomes the tool-role message of the
\* call and the loop goes on; with stop_on_error = true the failure leaves
\* execute() and nothing more happens in the invocation.
C9_ToolFailure ==
    \A i \in DOMAIN trace :
        (trace[i].op = "execute" /\ ~trace[i].ok) =>
            /\ Len(trace) > i
            /\ trace[i + 1] = EmitTool("tool:error", CallOf(trace[i].id))
            /\ IF stop_on_error
               THEN /\ Len(trace) = i + 1
                    /\ pc = "raised"
                    /\ result = Raised(trace[i].text)
               ELSE /\ Len(trace) > i + 1
                    /\ trace[i + 2].op = "add"
                    /\ messages[trace[i + 2].msg]
                          = ToolMsg(CallOf(trace[i].id),
                                    <<"Tool execution failed: ">> \o trace[i].text)
                    /\ GoesOn(i + 2, trace[i].id)

C9_Witness ==
    /\ ~stop_on_error
    /\ \E i \in DOMAIN trace :
          /\ trace[i].op = "execute"
          /\ ~trace[i].ok
          /\ ~IsLastCall(trace[i].id)
          /\ Executions(NextId(trace[i].id)) # {}
          /\ \E c \in LoopCalls : c > i

\* C10: a failing tool-enabled provider call is reported with
\* provider:error and re-raised; no provider call, tool invocation or
\* message append follows it in the invocation.
C10_ProviderFailureFatal ==
    /\ Cardinality({i \in DOMAIN trace : trace[i].op = "add"}) = Len(messages)
    /\ \A i \in LoopCalls :
          ~trace[i].ok =>
              /\ Len(trace) = i + 1
              /\ trace[i + 1] = [Emit("provider:error") EXCEPT !.text = trace[i].text]
              /\ pc = "raised"
              /\ result = Raised(trace[i].text)

C10_Witness ==
    /\ pc = "raised"
    /\ Cardinality(LoopCalls) = 2
    /\ \E i \in LoopCalls : ~trace[i].ok

\* ---------------------------------------------------- reading the detector
\* the same tool with equal arguments
SameCall(d1, d2) == d1.tool_name = d2.tool_name /\ SameInput(d1.tool_input, d2.tool_input)

\* how many of the latest notifications in a row reported the same call
RunLength ==
    LET n == Len(pushed)
    IN  IF n = 0 THEN 0
        ELSE CHOOSE k \in 1..n :
                 /\ \A i \in (n - k + 1)..n : SameCall(pushed[i], pushed[n])
                 /\ k = n \/ ~SameCall(pushed[n - k], pushed[n])

\* a tool name as far as its first ':'
BeforeColon(name) ==
    IF \E i \in DOMAIN name : name[i] = ":"
    THEN SubSeq(name, 1, (CHOOSE i \in DOMAIN name :
                              name[i] = ":" /\ \A j \in 1..(i - 1) : name[j] # ":") - 1)
    ELSE name

LastFivePushed == SubSeq(pushed, Len(pushed) - 4, Len(pushed))

LastFiveSigs == SubSeq(recent_calls, Len(recent_calls) - 4, Len(recent_calls))

\* the last five notifications go A, B, A, B, A with two different tool names
Alternating ==
    /\ Len(pushed) >= 5
    /\ LastFivePushed[1].tool_name # LastFivePushed[2].tool_name
    /\ \A i \in 1..3 : LastFivePushed[i + 2].tool_name = LastFivePushed[i].tool_name

\* C12 as stated: with the default threshold, when the five latest
\* signatures alternate between two different tool names the verdict is
\* "no pattern", whatever older signatures the window holds, and each of
\* the four adjacent pairs scores 0.0.
C12_AlternatingScoresZero ==
    (similarity_threshold = DefaultSimilarityThreshold /\ detection_window >= MinEntries
     /\ Alternating)
        => /\ ~loop_verdict.is_loop
           /\ \A i \in 1..4 : calculate_similarity(LastFiveSigs[i], LastFiveSigs[i + 1]) = 0

\* C13: already_warned never goes from true back to false; a call made
\* when it is true returns continue and logs no detection, even when the
\* classifier reports a pattern; so over the detector's lifetime at most
\* one call returns something else than continue or logs a detection.
C13_OneShot ==
    [][/\ already_warned => already_warned'
       /\ already_warned => (hook_result'.action = "continue" /\ detections' = detections)
       /\ (hook_result'.action # "continue" \/ detections' # detections)
              => (~already_warned /\ already_warned' /\ detections' = 1)]_vars

C13_Witness ==
    /\ already_warned
    /\ detections = 1
    /\ Len(pushed) > MinEntries
    /\ loop_verdict.is_loop
    /\ hook_result.action = "continue"
    /\ action_on_detect = "deny"

\* C14 as stated: with action_on_detect = warn and the detector on the
\* orchestrator's tool:post, once a tool:post notification returned the
\* detector's guidance (inject_context), the guidance is in the
\* conversation as a system message before the next provider request.
C14_GuidanceBeforeNextRequest ==
    \A i \in Emitted("tool:post") :
        trace[i].ret = "inject_context"
            => \A j \in Emitted("provider:request") :
                   j > i => \E k \in (i + 1)..(j - 1) :
                                /\ trace[k].op = "add"
                                /\ messages[trace[k].msg].role = "system"
                                /\ messages[trace[k].msg].template = "system_reminder"

\* a stream that is there: a text that is not empty
Present(v) == v.k = "str" /\ v.s # <<>>

\* the text of the tool-role message appended for the execution at trace[i]
ToolText(i) == messages[trace[i + 2].msg].content.s

\* C15: the text appended for a tool result is: stdout when only stdout is
\* there; stdout, a newline and "stderr: " with stderr when both are;
\* "stderr: " with stderr when only stderr is; "(empty output)" when neither
\* is. A scalar output gives its text form, or "(empty output)" when it is
\* falsy. The text is never empty.
C15_Normalized ==
    \A i \in DOMAIN trace :
        (trace[i].op = "execute" /\ trace[i].ok /\ Len(trace) >= i + 2)
            => LET r == trace[i].result
                   text == ToolText(i)
               IN  /\ trace[i + 2].op = "add"
                   /\ messages[trace[i + 2].msg].role = "tool"
                   /\ text # <<>>
                   /\ r.shape = "dict" =>
                          text = (CASE Present(r.stdout) /\ ~Present(r.stderr) -> r.stdout.s
                                    [] Present(r.stdout) /\ Present(r.stderr) ->
                                           r.stdout.s \o <<"\n", "stderr: ">> \o r.stderr.s
                                    [] ~Present(r.stdout) /\ Present(r.stderr) ->
                                           <<"stderr: ">> \o r.stderr.s
                                    [] OTHER -> <<"(empty output)">>)
                   /\ r.shape # "dict" =>
                          text = (CASE r.value.k = "str" /\ r.value.s # <<>> -> r.value.s
                                    [] r.value = IntVal(12) -> <<"12">>
                                    [] r.value = IntVal(0 - 1) -> <<"-1">>
                                    [] r.value.k = "int" /\ r.value.n # 0 -> ValText(r.value)
                                    [] OTHER -> <<"(empty output)">>)

C15_Witness ==
    \E i \in DOMAIN trace :
        /\ trace[i].op = "execute"
        /\ trace[i].result = DictResult(StrVal(<<"out">>), StrVal(<<"err">>))
        /\ Len(trace) >= i + 2
        /\ ToolText(i) = <<"out", "\n", "stderr: ", "err">>

\* the first provider:request after trace[c], or the end of the trace
SegmentEnd(c) ==
    IF \E j \in Emitted("provider:request") : j > c
    THEN CHOOSE j \in Emitted("provider:request") :
             j > c /\ \A k \in Emitted("provider:request") : k > c => j <= k
    ELSE Len(trace) + 1

\* where tool:pre was emitted for call id
PreOf(id) == {i \in Emitted("tool:pre") : trace[i].id = id}

\* where a tool-role message was appended for call id
ToolMsgOf(id) ==
    {i \in DOMAIN trace : /\ trace[i].op = "add"
                          /\ messages[trace[i].msg].role = "tool"
                          /\ messages[trace[i].msg].tool_call_id = id}

\* C16: the tool calls of a response are handled one after the other in the
\* provider's order: tool:pre, execution and tool-role message of a call
\* come before tool:pre of the next; each tool-role message carries the
\* call's id and tool name; unless the invocation raised, every call has
\* exactly one tool-role message before the next provider request.
C16_SequentialInOrder ==
    \A c \in LoopCalls :
        trace[c].ok =>
            LET cs == trace[c].calls
                e == SegmentEnd(c)
            IN  /\ \A k \in DOMAIN cs :
                       LET id == cs[k].id
                           pre == PreOf(id)
                           tm == ToolMsgOf(id)
                       IN  /\ Cardinality(pre) <= 1
                           /\ Cardinality(tm) <= 1
                           /\ Cardinality(Executions(id)) <= 1
                           /\ \A i \in pre : c < i /\ i < e /\ trace[i].tool = cs[k].name
                           /\ \A i \in tm :
                                  /\ i < e
                                  /\ messages[trace[i].msg].name = cs[k].name
                                  /\ \E j \in pre : j < i
                           /\ \A j \in Executions(id) :
                                  /\ \E i \in pre : i < j
                                  /\ \A i \in tm : j < i
                           /\ k > 1 => \A i \in pre : \E j \in ToolMsgOf(cs[k - 1].id) : j < i
                           /\ (e <= Len(trace) \/ pc \in {"loop", "returned"})
                                  => Cardinality(tm) = 1
                /\ \A i \in (c + 1)..(e - 1) :
                       /\ (trace[i].op = "emit" /\ trace[i].name = "tool:pre")
                              => \E k \in DOMAIN cs : cs[k].id = trace[i].id
                       /\ (trace[i].op = "add" /\ messages[trace[i].msg].role = "tool")
                              => \E k \in DOMAIN cs :
                                     cs[k].id = messages[trace[i].msg].tool_call_id

C16_Witness ==
    \E c \in LoopCalls :
        /\ Len(trace[c].calls) = 2
        /\ SegmentEnd(c) <= Len(trace)
        /\ \A k \in 1..2 : Cardinality(ToolMsgOf(trace[c].calls[k].id)) = 1
        /\ Cardinality(Executions(trace[c].calls[2].id)) = 1

\* a trace without what the notifications other than tool:pre returned
Erased(tr) ==
    [i \in DOMAIN tr |->
        IF tr[i].op = "emit" /\ tr[i].name # "tool:pre" THEN [tr[i] EXCEPT !.ret = ""]
        ELSE tr[i]]

\* what the environment gave a run: the provider's answers, the tool:pre
\* verdicts and what the tools did
Inputs(tr) ==
    SelectSeq(tr, LAMBDA e : e.op \in {"complete", "execute"}
                             \/ (e.op = "emit" /\ e.name = "tool:pre"))

\* C17: two invocations with the same prompt, provider answers, tool:pre
\* verdicts and tool results make the same calls on provider, tools and
\* hooks, append the same messages and end alike, whatever the tool:post
\* notifications returned in each.
C17_OnlyPreReturnCounts ==
    (Done /\ previous.kept /\ previous.trace # <<>>
     /\ previous.messages[1] = messages[1]
     /\ Inputs(previous.trace) = Inputs(trace))
        => /\ Erased(previous.trace) = Erased(trace)
           /\ previous.messages = messages
           /\ previous.result = result

C17_Witness ==
    /\ Done
    /\ previous.kept
    /\ Inputs(previous.trace) = Inputs(trace)
    /\ Len(previous.trace) = Len(trace)
    /\ \E i \in DOMAIN trace :
           /\ trace[i].name = "tool:post"
           /\ previous.trace[i].ret = "deny"
           /\ trace[i].ret = "continue"

\* the handling of call id after tool:pre let it through starts at trace[j]:
\* the tool runs (or is unknown), and the tool-role message follows
Handled(j, id) ==
    IF Len(trace) < j
    THEN pc = "tool_exec" /\ CurrentCall.id = id
    ELSE LET tc == CallOf(id)
         IN  IF tc.name \notin tools
             THEN /\ trace[j] = EmitTool("tool:error", tc)
                  /\ Executions(id) = {}
                  /\ Len(trace) > j
                  /\ trace[j + 1].op = "add"
                  /\ messages[trace[j + 1].msg].role = "tool"
                  /\ messages[trace[j + 1].msg].tool_call_id = id
             ELSE /\ trace[j].op = "execute"
                  /\ trace[j].id = id
                  /\ Executions(id) = {j}
                  /\ Len(trace) > j
                  /\ IF trace[j].ok
                     THEN /\ trace[j + 1].name = "tool:post"
                          /\ trace[j + 1].id = id
                          /\ Len(trace) > j + 1
                          /\ trace[j + 2].op = "add"
                          /\ messages[trace[j + 2].msg]
                                = ToolMsg(tc, NormalizeResult(trace[j].result))
                     ELSE /\ trace[j + 1] = EmitTool("tool:error", tc)
                          /\ stop_on_error => Len(trace) = j + 1
                          /\ ~stop_on_error =>
                                 (/\ Len(trace) > j + 1
                                  /\ trace[j + 2].op = "add"
                                  /\ messages[trace[j + 2].msg].role = "tool"
                                  /\ messages[trace[j + 2].msg].tool_call_id = id)

\* C18: on an inject_context verdict of tool:pre the injected text is
\* appended first, as a message with the verdict's role (system when the
\* verdict names none); then the tool is handled exactly as on a continue
\* verdict, so that its tool-role message comes after the injected one.
C18_InjectThenExecute ==
    \A i \in Emitted("tool:pre") :
        /\ trace[i].ret = "continue" => Handled(i + 1, trace[i].id)
        /\ trace[i].ret = "inject_context" =>
               /\ Len(trace) > i
               /\ trace[i + 1].op = "add"
               /\ LET m == messages[trace[i + 1].msg]
                      v == trace[i].verdict
                  IN  /\ m.role = (IF v.context_injection_role = "" THEN "system"
                                   ELSE v.context_injection_role)
                      /\ m.content = StrContent(v.context_injection)
                      /\ m.tool_call_id = NoId
               /\ Handled(i + 2, trace[i].id)

C18_Witness ==
    \E i \in Emitted("tool:pre") :
        /\ trace[i].ret = "inject_context"
        /\ trace[i].verdict.context_injection_role = "user"
        /\ Len(trace) >= i + 4
        /\ messages[trace[i + 1].msg].role = "user"
        /\ trace[i + 2].op = "execute"
        /\ trace[i + 2].ok
        /\ messages[trace[i + 4].msg].role = "tool"
        /\ trace[i + 4].msg = trace[i + 1].msg + 1

\* the signature the detector computes for a reported call
SigOf(c) == compute_signature(Data(c.tool_name, c.tool_input, ""))

\* how many signatures the window holds after k notifications
Held == IF Len(pushed) < detection_window THEN Len(pushed) ELSE detection_window

\* C19: after k tool:post notifications the window holds the latest
\* min(k, detection_window) signatures in the order of arrival; the verdict
\* has the exact-repeat wording exactly when the window holds at least 5
\* entries that all equal the first, and its count is then the length of
\* the window; a window whose last 5 entries are identical but which holds
\* an older different entry gets the similarity wording instead.
C19_WindowAndExactRepeat ==
    /\ Len(recent_calls) = Held
    /\ \A i \in 1..Held : recent_calls[i] = SigOf(pushed[Len(pushed) - Held + i])
    /\ Len(pushed) > 0 =>
          /\ loop_verdict.wording = "same_tool"
                <=> /\ Held >= 5
                    /\ \A i \in 1..Held : recent_calls[i] = recent_calls[1]
          /\ loop_verdict.wording = "same_tool"
                => /\ loop_verdict.count = Held
                   /\ loop_verdict.count \in 5..detection_window
          /\ (/\ Held > 5
              /\ \A i \in (Held - 4)..Held : recent_calls[i] = recent_calls[Held]
              /\ \E i \in 1..(Held - 5) : recent_calls[i] # recent_calls[Held])
                => /\ loop_verdict.wording = "repetitive"
                   /\ loop_verdict.doubled_sum = 8

C19_Witness ==
    /\ detection_window = MaxWindow
    /\ Len(pushed) = detection_window + 1
    /\ SigOf(pushed[1]) # SigOf(pushed[2])
    /\ loop_verdict.wording = "same_tool"
    /\ loop_verdict.count = detection_window

\* the score the claim gives a pair of calls, doubled: 2 for the same tool
\* and equal arguments, 1 for the same tool, 0 for different tools
ScoreOf(c1, c2) ==
    IF c1.tool_name # c2.tool_name THEN 0
    ELSE IF SameInput(c1.tool_input, c2.tool_input) THEN 2
    ELSE 1

\* the doubled sum of the four scores of the last five notifications
ScoreSum ==
    ScoreOf(LastFivePushed[1], LastFivePushed[2]) + ScoreOf(LastFivePushed[2], LastFivePushed[3])
    + ScoreOf(LastFivePushed[3], LastFivePushed[4]) + ScoreOf(LastFivePushed[4], LastFivePushed[5])

\* C20 as stated: each of the four adjacent pairs of the five latest
\* signatures scores 1.0 for the same tool name and fingerprint, 0.5 for the
\* same tool name only and 0.0 for different tool names, also for names
\* that contain ':'; the similarity check reports a pattern exactly when
\* the average reaches the threshold, which at 0.85 means: all five name the
\* same tool and at most one adjacent pair differs in fingerprint.
C20_ScoresByToolName ==
    (Len(pushed) >= 5 /\ detection_window >= MinEntries) =>
        /\ \A i \in 1..4 :
               calculate_similarity(LastFiveSigs[i], LastFiveSigs[i + 1])
                   = ScoreOf(LastFivePushed[i], LastFivePushed[i + 1])
        /\ ~AllIdentical(recent_calls) =>
               /\ loop_verdict.is_loop <=> ScoreSum * 100 >= similarity_threshold * 8
               /\ similarity_threshold = DefaultSimilarityThreshold =>
                      (loop_verdict.is_loop
                          <=> /\ \A i \in 1..4 : LastFivePushed[i].tool_name
                                                      = LastFivePushed[i + 1].tool_name
                              /\ Cardinality({i \in 1..4 :
                                     ~SameInput(LastFivePushed[i].tool_input,
                                                LastFivePushed[i + 1].tool_input)}) <= 1)

\* ------------------------------------------------------------------ C21
\* C21: the classifier reports no pattern while the window holds fewer than
\* 5 signatures: the first 4 notifications pushed into a detector never
\* escalate, and a detector whose detection_window is below 5 never
\* escalates and never sets already_warned, whatever the calls are.
C21_NoPatternBelowFive ==
    /\ Len(recent_calls) < MinEntries => ~loop_verdict.is_loop
    /\ Len(pushed) < MinEntries =>
          /\ hook_result = ContinueResult
          /\ ~already_warned
          /\ detections = 0
    /\ detection_window < MinEntries =>
          /\ ~loop_verdict.is_loop
          /\ hook_result = ContinueResult
          /\ ~already_warned
          /\ detections = 0

\* a window of 4 has seen the same call more than 4 times
C21_Witness ==
    /\ detection_window < MinEntries
    /\ Len(pushed) >= MinEntries
    /\ Len(recent_calls) = detection_window
    /\ \A i \in DOMAIN pushed : SameCall(pushed[i], pushed[1])
    /\ ~already_warned

\* ------------------------------------------------------------------ C22
\* the call of this step went through the classifier, which reported a pattern
Detected == pushed' # pushed /\ loop_verdict'.is_loop

\* C22: the first detected pattern of a detector sets already_warned for
\* every action_on_detect and returns deny with the block reason for deny,
\* inject_context with the system role and the guidance for warn, and
\* continue for log and any other value; a call that detects nothing, or
\* that comes when already_warned is set, returns continue.
C22_VerdictByAction ==
    [][/\ (Detected /\ ~already_warned) =>
            /\ already_warned'
            /\ detections' = detections + 1
            /\ action_on_detect = "deny" =>
                  /\ hook_result'.action = "deny"
                  /\ hook_result'.template = "loop_blocked"
                  /\ hook_result'.description = loop_verdict'
            /\ action_on_detect = "warn" =>
                  /\ hook_result'.action = "inject_context"
                  /\ hook_result'.context_injection_role = "system"
                  /\ hook_result'.template = "system_reminder"
                  /\ hook_result'.description = loop_verdict'
            /\ action_on_detect \notin {"deny", "warn"} =>
                  /\ hook_result'.action = "continue"
                  /\ hook_result'.template = ""
       /\ (~Detected \/ already_warned) =>
            /\ hook_result'.action = "continue"
            /\ hook_result'.template = ""
            /\ already_warned' = already_warned
            /\ detections' = detections]_vars

\* the first pattern of a detector set to deny has just been answered
C22_Witness ==
    /\ action_on_detect = "deny"
    /\ hook_result.action = "deny"
    /\ hook_result.description.is_loop
    /\ already_warned
    /\ detections = 1

\* ------------------------------------------------------------------ C23
\* the call this step added to the log
Latest == Last(call_log')

\* C23: a call leaves the window and already_warned unchanged and returns
\* continue when the data carry a parent_id and apply_to_sub_sessions is
\* false, and when the event is not tool:post; with apply_to_sub_sessions
\* true a tool:post with a parent_id is pushed into the window like any
\* other.
C23_SkippedCallsChangeNothing ==
    [][/\ Len(call_log') = Len(call_log) + 1
       /\ ((Latest.parent_id # "" /\ ~apply_to_sub_sessions) \/ Latest.event # "tool:post") =>
            /\ recent_calls' = recent_calls
            /\ already_warned' = already_warned
            /\ hook_result'.action = "continue"
       /\ (Latest.parent_id # "" /\ apply_to_sub_sessions /\ Latest.event = "tool:post") =>
            /\ Last(recent_calls') = SigOf(Latest)
            /\ Len(recent_calls') =
                  (IF Len(recent_calls) < detection_window
                   THEN Len(recent_calls) + 1
                   ELSE detection_window)
            /\ \A i \in 1..(Len(recent_calls') - 1) :
                  recent_calls'[i] = recent_calls[Len(recent_calls) - Len(recent_calls') + 1 + i]
            /\ (Len(recent_calls') >= MinEntries /\ ~already_warned) =>
                  /\ hook_result'.action = "inject_context"
                  /\ already_warned']_vars

\* five tool:post notifications of the same call have arrived, the latest
\* from a sub-session; those with a parent_id were left out of the window
C23_Witness ==
    /\ ~apply_to_sub_sessions
    /\ Len(call_log) >= MinEntries
    /\ \A i \in DOMAIN call_log : call_log[i].event = "tool:post"
    /\ Last(call_log).parent_id # ""
    /\ Len(recent_calls) = MinEntries - 1
    /\ ~already_warned
    /\ hook_result = ContinueResult

\* ------------------------------------------------------------------ C24
\* the calls of one conversation, in the order they were made
OwnCalls(session) == SelectSeq(call_log, LAMBDA c : c.session = session)

\* what the classifier says of a sequence of calls taken on its own
PatternIn(calls) ==
    LET n == Len(calls)
        h == IF n < detection_window THEN n ELSE detection_window
        win == SubSeq(calls, n - h + 1, n)
    IN  /\ h >= MinEntries
        /\ \/ \A i \in 1..h : SameCall(win[i], win[1])
           \/ (ScoreOf(win[h - 4], win[h - 3]) + ScoreOf(win[h - 3], win[h - 2])
               + ScoreOf(win[h - 2], win[h - 1]) + ScoreOf(win[h - 1], win[h])) * 100
              >= similarity_threshold * 8

\* the latest call of the sequence is the first to show a pattern: the
\* call a detector that saw this sequence alone would escalate
FirstPatternAt(calls) ==
    /\ PatternIn(calls)
    /\ \A k \in 1..(Len(calls) - 1) : ~PatternIn(SubSeq(calls, 1, k))

\* C24: the state of a detector leaks across the conversations that share
\* it: what a call is answered follows from the calls of all of them taken
\* as one sequence, so that a conversation can be escalated, or have its
\* only escalation suppressed, because of another's calls; as long as one
\* conversation alone calls the instance, its own calls decide.
C24_MergedCallsDecide ==
    call_log # <<>> =>
        /\ (hook_result.action = "inject_context") <=> FirstPatternAt(call_log)
        /\ (\A i \in DOMAIN call_log : call_log[i].session = Last(call_log).session) =>
              ((hook_result.action = "inject_context")
                  <=> FirstPatternAt(OwnCalls(Last(call_log).session)))

\* conversation B is escalated although its own calls show no pattern
C24_Witness ==
    /\ call_log # <<>>
    /\ Last(call_log).session = "B"
    /\ hook_result.action = "inject_context"
    /\ OwnCalls("A") # <<>>
    /\ \A k \in 1..Len(OwnCalls("B")) : ~PatternIn(SubSeq(OwnCalls("B"), 1, k))

\* ------------------------------------------------------------------ C25
\* C25: the detector observes a tool call only after its tool.execute has
\* returned: each tool:post notification, whatever the detector answers to
\* it, comes right after the one execution of the same call, which
\* returned normally; a deny of the detector comes after the execution of
\* the call it is about.
C25_PostAfterExecute ==
    \A i \in Emitted("tool:post") :
        /\ i > 1
        /\ trace[i - 1].op = "execute"
        /\ trace[i - 1].id = trace[i].id
        /\ trace[i - 1].ok
        /\ Executions(trace[i].id) = {i - 1}

\* the detector has answered deny to a call that had already run
C25_Witness ==
    /\ action_on_detect = "deny"
    /\ \E i \in Emitted("tool:post") :
          /\ trace[i].ret = "deny"
          /\ Executions(trace[i].id) # {}
          /\ \A j \in Executions(trace[i].id) : j < i

\* ------------------------------------------------------------------ C26
\* the executions that returned normally
Returns == {j \in DOMAIN trace : trace[j].op = "execute" /\ trace[j].ok}

PostsOf(id) == {i \in Emitted("tool:post") : trace[i].id = id}

\* C26: tool:post is emitted exactly once for every execution that returns
\* normally and never for a call that tool:pre denied, that names an
\* unregistered tool, or whose execute raised; so the window of the
\* detector holds successful executions only, and repeating a denied,
\* unknown or failing call is never flagged.
C26_PostForSuccessOnly ==
    /\ \A j \in Returns :
          /\ j < Len(trace)
          /\ PostsOf(trace[j].id) = {j + 1}
    /\ \A i \in Emitted("tool:post") :
          /\ i - 1 \in Returns
          /\ trace[i - 1].id = trace[i].id
          /\ trace[i].tool \in tools
          /\ \A k \in PreOf(trace[i].id) : trace[k].ret # "deny"
    /\ \A k \in Emitted("tool:pre") : trace[k].ret = "deny" => PostsOf(trace[k].id) = {}
    /\ \A k \in Emitted("tool:error") : PostsOf(trace[k].id) = {}
    /\ Len(recent_calls) = Cardinality(Returns)
    /\ Cardinality(Returns) < MinEntries =>
          /\ ~already_warned
          /\ detections = 0
          /\ hook_result.action = "continue"

\* the provider has repeated its call 5 times: denied, unknown and failing
\* calls, none of which ran to the end, and the detector has seen nothing
C26_Witness ==
    /\ Cardinality(Emitted("tool:pre")) >= MinEntries
    /\ \E k \in Emitted("tool:pre") : trace[k].ret = "deny"
    /\ \E j \in DOMAIN trace : trace[j].op = "execute" /\ ~trace[j].ok
    /\ \E k \in Emitted("tool:error") : trace[k].tool \notin tools
    /\ Emitted("tool:post") = {}
    /\ recent_calls = <<>>
    /\ ~already_warned

\* ------------------------------------------------------------------ C27
\* C27: an invocation that returns a text has emitted exactly one
\* orchestrator:complete notification, as its last event, with turn_count
\* equal to the final iteration_count; an invocation that ends by raising,
\* and one that is still running, has emitted none.
C27_OneCompleteAtTheEnd ==
    /\ result.kind = "returned" =>
          /\ Emitted("orchestrator:complete") = {Len(trace)}
          /\ Last(trace).iteration = iteration_count
          /\ Last(trace).status \in {"success", "incomplete", "error"}
    /\ result.kind # "returned" => Emitted("orchestrator:complete") = {}

\* the wrap-up request failed and the invocation returned its fallback text
C27_Witness ==
    /\ result.kind = "returned"
    /\ Last(trace).name = "orchestrator:complete"
    /\ Last(trace).status = "error"
    /\ Last(trace).iteration = max_iterations
    /\ \E i \in ProviderCalls : ~trace[i].ok

\* ------------------------------------------------------------------ C28
\* C28 as stated: every provider.complete call, tool-enabled or wrap-up, is
\* immediately preceded by one provider:request notification and followed
\* by exactly one of provider:response, when it returned, or
\* provider:error, when it raised: every provider failure is reported
\* through provider:error.
C28_RequestThenOutcome ==
    \A i \in ProviderCalls :
        /\ i > 1
        /\ trace[i - 1].op = "emit"
        /\ trace[i - 1].name = "provider:request"
        /\ i < Len(trace)
        /\ trace[i + 1].op = "emit"
        /\ trace[i + 1].name = (IF trace[i].ok THEN "provider:response" ELSE "provider:error")
        /\ \A j \in Emitted("provider:response") \cup Emitted("provider:error") :
              j > i + 1 => \E k \in ProviderCalls : i < k /\ k < j

\* ------------------------------------------------------------------ C30
\* what was appended to the conversation after trace entry t
AddedAfter(t) == {j \in DOMAIN trace : j > t /\ trace[j].op = "add"}

\* C30: once the termination message has been appended, no tool:pre is
\* emitted and no tool is invoked for the rest of the invocation, also when
\* the wrap-up response holds tool calls; after the termination message at
\* most one message is appended, an assistant message with the wrap-up text.
C30_NoToolsAfterTermination ==
    \A t \in TermIdx :
        /\ \A j \in DOMAIN trace :
              j > t =>
                 /\ trace[j].op # "execute"
                 /\ trace[j].name \notin {"tool:pre", "tool:post", "tool:error"}
        /\ Cardinality(AddedAfter(t)) <= 1
        /\ \A j \in AddedAfter(t) :
              /\ trace[j].msg = Len(messages)
              /\ Last(messages).role = "assistant"
              /\ Last(messages).tool_calls = <<>>
              /\ \E i \in WrapUpCalls :
                    /\ i < j
                    /\ trace[i].ok
                    /\ Last(messages).content = serialize_content(raw_content(trace[i].content))
        /\ AddedAfter(t) = {} => Last(messages).template = "max_iterations_reached"

\* the wrap-up response asked for a registered tool; the invocation
\* returned without running it
C30_Witness ==
    /\ pc = "returned"
    /\ \E i \in WrapUpCalls :
          /\ trace[i].ok
          /\ trace[i].calls # <<>>
          /\ \A k \in DOMAIN trace[i].calls : trace[i].calls[k].name \in tools
    /\ \A t \in TermIdx : Cardinality(AddedAfter(t)) = 1
    /\ Last(messages).role = "assistant"

\* ------------------------------------------------------------------ C29
\* the iterations of the invocation: where it announced a request or the limit
Rounds ==
    {i \in DOMAIN trace :
        /\ trace[i].op = "emit"
        /\ \/ trace[i].name = "orchestrator:limit_reached"
           \/ trace[i].name = "provider:request" /\ ~trace[i].wrap_up}

\* the values of iteration_count the invocation saw, one per iteration
SeenCounts == {trace[i].iteration : i \in Rounds}

\* C29: iteration_count is state of the instance: an invocation whose
\* instance no other invocation touched while it ran, because the other
\* has its own instance or because the two never ran at the same time,
\* counts its iterations 1, 2, ..., makes at most max_iterations provider
\* calls and is warned at each value of warn_at it reaches; on a shared
\* instance an overlapping invocation can undo both.
C29_UndisturbedCounts ==
    (~second.shared \/ ~second.interfered) =>
        /\ \A i \in Rounds : trace[i].iteration = Cardinality({j \in Rounds : j <= i})
        /\ Cardinality(ProviderCalls) <= max_iterations
        /\ \A c \in 1..Cardinality(Rounds) :
              Cardinality({i \in 1..Len(Warnings) : Warnings[i].iteration = c})
                 = (IF c \in Range(warn_at) THEN 1 ELSE 0)

\* on a shared instance the other invocation's reset has let this one make
\* more than max_iterations provider calls
C29_Witness ==
    /\ second.shared
    /\ second.interfered
    /\ Cardinality(ProviderCalls) > max_iterations

====
